---- MODULE Spec2Model ----
(***************************************************************************)
(* A model of the Tetris engine of src/src/game.rs: the Shape matrix and   *)
(* its rotation, the catalog of shapes, and the Game with its level, its   *)
(* current shape, its state machine, handle_event and tick.                *)
(*                                                                         *)
(* Matrices are the matrix crate's Conventional<bool>: a record of rows,   *)
(* columns and a column-major vector of values.  Indexing computes         *)
(* column * rows + row and indexes the vector, so a row index past the     *)
(* last row reads a cell of the next column, and an index past the vector  *)
(* aborts the program (a Rust panic).                                      *)
(*                                                                         *)
(* The loop of ui::start in src/src/ui.rs, which drives the engine from    *)
(* the keyboard and the clock, is modelled with the position of its        *)
(* control and the key it has read.                                        *)
(***************************************************************************)
EXTENDS Integers, Sequences, FiniteSets, TLC

VARIABLES
    state,      \* Game::state: "Init", "Playing", "Paused" or "End"
    level,      \* Game::level: the matrix of locked cells
    shape,      \* Game::shape: <<>> for None, <<s>> for Some(s)
    panicked,   \* TRUE once a call has aborted the program
    last,       \* what the last call was and what it did
    locks,      \* how many shapes have been locked into the level so far
    rendered,   \* <<m>> after a call of render that returned m, else <<>>
    trial,      \* the shape of the rotation tests: the shape as created,
                \* the shape as it is and the number of rotate calls made
    ui          \* ui::start: pc is where its control is, key the key that
                \* its last poll read

vars == <<state, level, shape, panicked, last, locks, rendered, trial, ui>>

----------------------------------------------------------------------------
(* Bounds of the model *)

\* the sizes (rows, columns) of the levels the engine is constructed with:
\* the 2 x 2 level that matches the square, a level of 3 rows, lower than
\* the stick, a 4 x 4 level, and the smallest level in which every shape of
\* the catalog can be spawned
LevelSizes == {<<2, 2>>, <<3, 5>>, <<4, 4>>, <<4, 5>>}

\* a run locks at most MaxLocks shapes
MaxLocks == 1

\* a rotation test makes at most MaxTurns calls of rotate
MaxTurns == 16

\* the level grids that eliminate_rows is applied to on its own have at most
\* MaxGridRows rows and MaxGridColumns columns
MaxGridRows == 3
MaxGridColumns == 3

----------------------------------------------------------------------------
(* Conventional<bool> *)

\* Conventional::new(size): a matrix of false cells
Conventional_new(rows, columns) ==
    [rows |-> rows, columns |-> columns,
     values |-> [i \in 1..(rows * columns) |-> FALSE]]

\* the position of cell (row, col) in the column-major vector, from 0
offset(m, row, col) == col * m.rows + row

\* the vector has an element at the position of (row, col)
in_vector(m, row, col) ==
    offset(m, row, col) >= 0 /\ offset(m, row, col) < Len(m.values)

\* (row, col) names a cell of the matrix
in_range(m, row, col) ==
    row >= 0 /\ row < m.rows /\ col >= 0 /\ col < m.columns

\* m[(row, col)], for a position that is in the vector
get(m, row, col) == m.values[offset(m, row, col) + 1]

\* m[(row, col)] = v, for a position that is in the vector
set(m, row, col, v) == [m EXCEPT !.values[offset(m, row, col) + 1] = v]

----------------------------------------------------------------------------
(* Shape *)

width(s) == s.columns

height(s) == s.rows

\* shape![...]: the rows as written, top row first, are reversed so that
\* row 0 is the bottom row, and matrix! lays them out column by column
shape_macro(written) ==
    LET ROWS == Len(written)
        COLS == Len(written[1])
    IN  [rows |-> ROWS, columns |-> COLS,
         values |-> [i \in 1..(ROWS * COLS) |->
                        written[ROWS - ((i - 1) % ROWS)][((i - 1) \div ROWS) + 1]]]

\* a rotate whose loop over the rows starts at row 1: row 0 stays false
rotate_skips_row(s) ==
    LET new_rows == width(s)
        new_columns == height(s)
    IN  [rows |-> new_rows, columns |-> new_columns,
         values |-> [i \in 1..(new_rows * new_columns) |->
                        LET row == (i - 1) % new_rows
                            col == (i - 1) \div new_rows
                        IN  row > 0 /\ get(s, col, new_rows - row - 1)]]

\* a rotate that turns the shape counter-clockwise
rotate_counter_clockwise(s) ==
    LET new_rows == width(s)
        new_columns == height(s)
    IN  [rows |-> new_rows, columns |-> new_columns,
         values |-> [i \in 1..(new_rows * new_columns) |->
                        LET row == (i - 1) % new_rows
                            col == (i - 1) \div new_rows
                        IN  get(s, new_columns - col - 1, row)]]

\* a rotate that transposes the shape
rotate_transposed(s) ==
    LET new_rows == width(s)
        new_columns == height(s)
    IN  [rows |-> new_rows, columns |-> new_columns,
         values |-> [i \in 1..(new_rows * new_columns) |->
                        LET row == (i - 1) % new_rows
                            col == (i - 1) \div new_rows
                        IN  get(s, col, row)]]

\* a rotate that leaves the shape as it is
rotate_in_place(s) == s

\* Shape::rotate: clockwise by 90 degrees
rotate(s) ==
    LET new_rows == width(s)
        new_columns == height(s)
    IN  [rows |-> new_rows, columns |-> new_columns,
         values |-> [i \in 1..(new_rows * new_columns) |->
                        LET row == (i - 1) % new_rows
                            col == (i - 1) \div new_rows
                        IN  get(s, col, new_rows - row - 1)]]

\* ShapesFactory::new: square, stick, J, L, S, Z, T
shapes ==
    << shape_macro(<< <<TRUE, TRUE>>,
                      <<TRUE, TRUE>> >>),
       shape_macro(<< <<TRUE>>,
                      <<TRUE>>,
                      <<TRUE>>,
                      <<TRUE>> >>),
       shape_macro(<< <<TRUE, FALSE, FALSE>>,
                      <<TRUE, TRUE, TRUE>> >>),
       shape_macro(<< <<FALSE, FALSE, TRUE>>,
                      <<TRUE, TRUE, TRUE>> >>),
       shape_macro(<< <<FALSE, TRUE, TRUE>>,
                      <<TRUE, TRUE, FALSE>> >>),
       shape_macro(<< <<TRUE, TRUE, FALSE>>,
                      <<FALSE, TRUE, TRUE>> >>),
       shape_macro(<< <<FALSE, TRUE, FALSE>>,
                      <<TRUE, TRUE, TRUE>> >>) >>

\* ShapesFactory::create_shape: sel is the random index, from 1
create_shape(sel) == shapes[sel]

----------------------------------------------------------------------------
(* Option<ShapeInLevel> *)

None == <<>>

Some(s) == <<s>>

unwrap(o) == o[1]

----------------------------------------------------------------------------
(* Game *)

\* the engine as one value: the fields of struct Game
Game(sh, st, lvl) == [shape |-> sh, state |-> st, level |-> lvl]

\* what a call did: the value g it leaves (the engine, a level or a shape
\* in the level), its return value, whether it aborted, whether it indexed
\* a matrix outside its rows and columns, and (did) whether the move, drop
\* or rotation inside a handler was committed
Result(g, ret, panic, oob) ==
    [g |-> g, ret |-> ret, panic |-> panic, oob |-> oob, did |-> FALSE]

Did(r, b) == [r EXCEPT !.did = b]

\* Game::new
Game_new(size) == Game(None, "Init", Conventional_new(size[1], size[2]))

\* check_shape_out_of_bound with the right edge compared by >= (a shape may
\* not touch the last column)
check_shape_out_of_bound_ge(lvl, s1) ==
    s1.pos[1] < 0 \/ (s1.pos[1] + height(s1.shape)) > lvl.rows
    \/ s1.pos[2] < 0 \/ (s1.pos[2] + width(s1.shape)) >= lvl.columns

\* Game::check_shape_out_of_bound
check_shape_out_of_bound(lvl, s1) ==
    LET pos == s1.pos
        s_width == width(s1.shape)
        s_height == height(s1.shape)
        l_width == lvl.columns
        l_height == lvl.rows
    IN  pos[1] < 0 \/ (pos[1] + s_height) > l_height
        \/ pos[2] < 0 \/ (pos[2] + s_width) > l_width

\* the loops of Game::check_collision from the k-th cell of the shape on,
\* cells counted row by row
RECURSIVE check_collision_from(_, _, _, _)
check_collision_from(lvl, s1, k, oob) ==
    LET s_width == width(s1.shape)
        s_height == height(s1.shape)
        hi == k \div s_width
        wi == k % s_width
        row == s1.pos[1] + hi
        col == s1.pos[2] + wi
    IN  IF k >= s_height * s_width THEN Result(lvl, FALSE, FALSE, oob)
        ELSE IF ~get(s1.shape, hi, wi) THEN check_collision_from(lvl, s1, k + 1, oob)
        ELSE IF ~in_vector(lvl, row, col) THEN Result(lvl, FALSE, TRUE, TRUE)
        ELSE IF get(lvl, row, col)
             THEN Result(lvl, TRUE, FALSE, oob \/ ~in_range(lvl, row, col))
        ELSE check_collision_from(lvl, s1, k + 1, oob \/ ~in_range(lvl, row, col))

\* check_collision that never finds a collision
check_collision_none(lvl, s1) == Result(lvl, FALSE, FALSE, FALSE)

\* Game::check_collision
check_collision(lvl, s1) == check_collision_from(lvl, s1, 0, FALSE)

\* Game::move_shape
move_shape(g, dir) ==
    IF g.state = "Playing"
    THEN IF g.shape = None THEN Result(g, FALSE, TRUE, FALSE)
         ELSE
         LET s0 == unwrap(g.shape)
             orig_pos == s0.pos
             s == [s0 EXCEPT !.pos = <<s0.pos[1] + dir[1], s0.pos[2] + dir[2]>>]
             out == check_shape_out_of_bound(g.level, s)
             col == IF out THEN Result(g.level, FALSE, FALSE, FALSE)
                    ELSE check_collision(g.level, s)
             ok == ~out /\ ~col.ret
             s2 == IF ok THEN s ELSE [s EXCEPT !.pos = orig_pos]
         IN  IF col.panic THEN Result(g, FALSE, TRUE, col.oob)
             ELSE Result([g EXCEPT !.shape = Some(s2)], ok, FALSE, col.oob)
    ELSE Result(g, FALSE, FALSE, FALSE)

\* locking loops that set every cell of the bounding box of the shape
RECURSIVE lock_from_box(_, _, _, _)
lock_from_box(lvl, s, k, oob) ==
    LET s_width == width(s.shape)
        s_height == height(s.shape)
        hi == k \div s_width
        wi == k % s_width
        row == s.pos[1] + hi
        col == s.pos[2] + wi
    IN  IF k >= s_height * s_width THEN Result(lvl, FALSE, FALSE, oob)
        ELSE IF ~in_vector(lvl, row, col) THEN Result(lvl, FALSE, TRUE, TRUE)
        ELSE lock_from_box(set(lvl, row, col, TRUE), s, k + 1,
                           oob \/ ~in_range(lvl, row, col))

\* the locking loops of Game::drop_shape from the k-th cell of the shape on
RECURSIVE lock_from(_, _, _, _)
lock_from(lvl, s, k, oob) ==
    LET s_width == width(s.shape)
        s_height == height(s.shape)
        hi == k \div s_width
        wi == k % s_width
        row == s.pos[1] + hi
        col == s.pos[2] + wi
    IN  IF k >= s_height * s_width THEN Result(lvl, FALSE, FALSE, oob)
        ELSE IF ~get(s.shape, hi, wi) THEN lock_from(lvl, s, k + 1, oob)
        ELSE IF ~in_vector(lvl, row, col) THEN Result(lvl, FALSE, TRUE, TRUE)
        ELSE lock_from(set(lvl, row, col, TRUE), s, k + 1,
                       oob \/ ~in_range(lvl, row, col))

\* a drop_shape that moves the shape down by two rows
drop_shape_two_rows(g) ==
    LET m == move_shape(g, <<-2, 0>>)
    IN  IF m.panic \/ m.ret THEN m
        ELSE IF m.g.shape = None THEN Result(m.g, FALSE, TRUE, m.oob)
        ELSE LET s == unwrap(m.g.shape)
                 l == lock_from(m.g.level, s, 0, m.oob)
             IN  Result([m.g EXCEPT !.shape = None, !.level = l.g],
                        FALSE, l.panic, l.oob)

\* Game::drop_shape
drop_shape(g) ==
    LET m == move_shape(g, <<-1, 0>>)
    IN  IF m.panic \/ m.ret THEN m
        ELSE IF m.g.shape = None THEN Result(m.g, FALSE, TRUE, m.oob)
        ELSE LET s == unwrap(m.g.shape)
                 l == lock_from(m.g.level, s, 0, m.oob)
             IN  Result([m.g EXCEPT !.shape = None, !.level = l.g],
                        FALSE, l.panic, l.oob)

\* a first loop that takes a row with any true cell for a full row
rows_to_eliminate_any(lvl) ==
    SelectSeq([i \in 1..lvl.rows |-> i - 1],
              LAMBDA row : \E col \in 0..(lvl.columns - 1) : get(lvl, row, col))

\* the first loop of Game::eliminate_rows: the full rows, bottom first
rows_to_eliminate(lvl) ==
    SelectSeq([i \in 1..lvl.rows |-> i - 1],
              LAMBDA row : \A col \in 0..(lvl.columns - 1) : get(lvl, row, col))

\* the while loop of Game::eliminate_rows: <<row_src, rows_to_eliminate>>
\* after skipping the rows at the front of the queue
RECURSIVE skip_eliminated(_, _)
skip_eliminated(row_src, q) ==
    IF q # <<>> /\ Head(q) = row_src
    THEN skip_eliminated(row_src + 1, Tail(q))
    ELSE <<row_src, q>>

\* the copying loop of Game::eliminate_rows from row on
RECURSIVE eliminate_from(_, _, _, _, _, _)
eliminate_from(lvl, new, row, row_src, q, oob) ==
    IF row >= lvl.rows THEN Result(new, TRUE, FALSE, oob)
    ELSE
    LET sk == skip_eliminated(row_src, q)
        src == sk[1]
        oob2 == oob \/ \E col \in 0..(lvl.columns - 1) : ~in_range(lvl, src, col)
        copied == [new EXCEPT !.values =
                      [i \in DOMAIN new.values |->
                          IF (i - 1) % new.rows = row
                          THEN get(lvl, src, (i - 1) \div new.rows)
                          ELSE new.values[i]]]
    IN  IF \E col \in 0..(lvl.columns - 1) : ~in_vector(lvl, src, col)
        THEN Result(new, FALSE, TRUE, TRUE)
        ELSE IF src + 1 >= lvl.rows THEN Result(copied, TRUE, FALSE, oob2)
        ELSE eliminate_from(lvl, copied, row + 1, src + 1, sk[2], oob2)

\* an eliminate_rows that eliminates nothing
eliminate_rows_none(lvl) == Result(lvl, FALSE, FALSE, FALSE)

\* Game::eliminate_rows; the field g of the result is the level
eliminate_rows(lvl) ==
    IF Len(rows_to_eliminate(lvl)) = 0 THEN Result(lvl, FALSE, FALSE, FALSE)
    ELSE eliminate_from(lvl, Conventional_new(lvl.rows, lvl.columns), 0, 0,
                        rows_to_eliminate(lvl), FALSE)

\* the while loop of Game::create_new_shape; the field g of the result is
\* the shape in the level
RECURSIVE spawn_search(_, _, _)
spawn_search(lvl, s, oob) ==
    LET c == check_collision(lvl, s)
    IN  IF c.panic THEN Result(s, FALSE, TRUE, TRUE)
        ELSE IF c.ret
             THEN spawn_search(lvl, [s EXCEPT !.pos[1] = s.pos[1] + 1], oob \/ c.oob)
        ELSE Result(s, FALSE, FALSE, oob \/ c.oob)

\* Game::create_new_shape.  sel is the random index; rows - height is a
\* usize subtraction: when it underflows, a build with overflow checks
\* aborts and a build without them wraps (wrapping), which the cast to
\* isize turns into the negative difference
create_new_shape(g, sel, wrapping) ==
    LET sh == create_shape(sel)
        s == [shape |-> sh,
              pos |-> <<g.level.rows - height(sh), g.level.columns \div 2>>]
        f == spawn_search(g.level, s, FALSE)
    IN  IF g.level.rows < height(sh) /\ ~wrapping THEN Result(g, FALSE, TRUE, FALSE)
        ELSE IF f.panic THEN Result(g, FALSE, TRUE, f.oob)
        ELSE Result([g EXCEPT !.shape = Some(f.g)], FALSE, FALSE, f.oob)

\* reset that does not clear the level
reset_keeps_level(g, sel, wrapping) ==
    LET c == create_new_shape(g, sel, wrapping)
    IN  IF c.panic THEN c
        ELSE Result([c.g EXCEPT !.state = "Playing"], FALSE, FALSE, c.oob)

\* reset that creates no shape
reset_without_shape(g, sel, wrapping) ==
    Result([g EXCEPT !.level.values = [i \in DOMAIN g.level.values |-> FALSE],
                     !.state = "Playing"],
           FALSE, FALSE, FALSE)

\* Game::reset
reset(g, sel, wrapping) ==
    LET cleared == [g EXCEPT !.level.values = [i \in DOMAIN g.level.values |-> FALSE]]
        c == create_new_shape(cleared, sel, wrapping)
    IN  IF c.panic THEN c
        ELSE Result([c.g EXCEPT !.state = "Playing"], FALSE, FALSE, c.oob)

\* the Start arm that resets the game in state Paused too
handle_start_resets(g, sel, wrapping) ==
    IF g.state \in {"Init", "End", "Paused"}
    THEN LET r == reset(g, sel, wrapping)
         IN  Result(r.g, ~r.panic, r.panic, r.oob)
    ELSE Result(g, TRUE, FALSE, FALSE)

\* Game::handle_event, the Event::Start arm
handle_start(g, sel, wrapping) ==
    IF g.state \in {"Init", "End"}
    THEN LET r == reset(g, sel, wrapping)
         IN  Result(r.g, ~r.panic, r.panic, r.oob)
    ELSE IF g.state = "Paused"
         THEN Result([g EXCEPT !.state = "Playing"], TRUE, FALSE, FALSE)
    ELSE Result(g, TRUE, FALSE, FALSE)

\* Left and Right arms that return what move_shape returned
handle_move_returns_moved(g, dir) ==
    IF g.state # "Playing" THEN Result(g, TRUE, FALSE, FALSE)
    ELSE LET m == move_shape(g, dir)
         IN  Did(Result(m.g, m.ret, m.panic, m.oob), m.ret)

\* Game::handle_event, the Event::Left and Event::Right arms
handle_move(g, dir) ==
    IF g.state # "Playing" THEN Result(g, TRUE, FALSE, FALSE)
    ELSE LET m == move_shape(g, dir)
         IN  Did(Result(m.g, ~m.panic, m.panic, m.oob), m.ret)

\* the Pause arm without the test of the state
handle_pause_any(g) == Result([g EXCEPT !.state = "Paused"], TRUE, FALSE, FALSE)

\* Game::handle_event, the Event::Pause arm
handle_pause(g) ==
    IF g.state = "Playing"
    THEN Result([g EXCEPT !.state = "Paused"], TRUE, FALSE, FALSE)
    ELSE Result(g, TRUE, FALSE, FALSE)

\* the Rotate arm without the test of the state
handle_rotate_unguarded(g) ==
    IF g.shape = None THEN Result(g, FALSE, TRUE, FALSE)
    ELSE
    LET s == unwrap(g.shape)
        new_s == [s EXCEPT !.shape = rotate(s.shape)]
        out == check_shape_out_of_bound(g.level, new_s)
        col == IF out THEN Result(g.level, FALSE, FALSE, FALSE)
               ELSE check_collision(g.level, new_s)
    IN  IF col.panic THEN Result(g, FALSE, TRUE, col.oob)
        ELSE IF ~out /\ ~col.ret
             THEN Did(Result([g EXCEPT !.shape = Some(new_s)], TRUE, FALSE, col.oob), TRUE)
        ELSE Result(g, TRUE, FALSE, col.oob)

\* the Rotate arm that keeps the rotated copy whatever the checks say
handle_rotate_always(g) ==
    IF g.state # "Playing" THEN Result(g, TRUE, FALSE, FALSE)
    ELSE IF g.shape = None THEN Result(g, FALSE, TRUE, FALSE)
    ELSE LET s == unwrap(g.shape)
         IN  Did(Result([g EXCEPT !.shape = Some([s EXCEPT !.shape = rotate(s.shape)])],
                        TRUE, FALSE, FALSE), TRUE)

\* Game::handle_event, the Event::Rotate arm
handle_rotate(g) ==
    IF g.state # "Playing" THEN Result(g, TRUE, FALSE, FALSE)
    ELSE IF g.shape = None THEN Result(g, FALSE, TRUE, FALSE)
    ELSE
    LET s == unwrap(g.shape)
        new_s == [s EXCEPT !.shape = rotate(s.shape)]
        out == check_shape_out_of_bound(g.level, new_s)
        col == IF out THEN Result(g.level, FALSE, FALSE, FALSE)
               ELSE check_collision(g.level, new_s)
    IN  IF col.panic THEN Result(g, FALSE, TRUE, col.oob)
        ELSE IF ~out /\ ~col.ret
             THEN Did(Result([g EXCEPT !.shape = Some(new_s)], TRUE, FALSE, col.oob), TRUE)
        ELSE Result(g, TRUE, FALSE, col.oob)

\* Game::handle_event
handle_event(g, e, sel, wrapping) ==
    CASE e = "Start" -> handle_start(g, sel, wrapping)
      [] e = "Left" -> handle_move(g, <<0, -1>>)
      [] e = "Right" -> handle_move(g, <<0, 1>>)
      [] e = "Pause" -> handle_pause(g)
      [] e = "Rotate" -> handle_rotate(g)

\* the end of tick without the check of the new shape
tick_check_never_ends(c) ==
    IF c.panic THEN c ELSE Result(c.g, TRUE, FALSE, c.oob)

\* Game::tick from the check of the new shape on: c is what
\* create_new_shape did
tick_check(c) ==
    IF c.panic THEN c
    ELSE LET s == unwrap(c.g.shape)
             out == check_shape_out_of_bound(c.g.level, s)
             col == IF out THEN Result(c.g.level, FALSE, FALSE, FALSE)
                    ELSE check_collision(c.g.level, s)
         IN  IF col.panic THEN Result(c.g, FALSE, TRUE, TRUE)
             ELSE IF out \/ col.ret
                  THEN Result([c.g EXCEPT !.state = "End"], TRUE, FALSE, c.oob \/ col.oob)
             ELSE Result(c.g, TRUE, FALSE, c.oob \/ col.oob)

\* Game::tick from create_new_shape on: g is the engine after drop_shape
\* and e is what eliminate_rows did
tick_spawn(g, e, sel, wrapping) ==
    IF e.panic THEN Result(g, FALSE, TRUE, TRUE)
    ELSE LET c == create_new_shape([g EXCEPT !.level = e.g], sel, wrapping)
         IN  tick_check([c EXCEPT !.oob = c.oob \/ e.oob])

\* Game::tick from the test of dropped on: d is what drop_shape did
tick_dropped(d, sel, wrapping) ==
    IF d.panic THEN d
    ELSE IF d.ret THEN Did(Result(d.g, TRUE, FALSE, d.oob), TRUE)
    ELSE LET t == tick_spawn(d.g, eliminate_rows(d.g.level), sel, wrapping)
         IN  [t EXCEPT !.oob = t.oob \/ d.oob]

\* Game::tick; it returns nothing: ret is TRUE, did is dropped
tick(g, sel, wrapping) ==
    IF g.state # "Playing" THEN Result(g, TRUE, FALSE, FALSE)
    ELSE tick_dropped(drop_shape(g), sel, wrapping)

\* (i as usize) < n for an isize i: the cast takes a negative i to a value
\* above every dimension of a matrix
usize_lt(i, n) == i >= 0 /\ i < n

RECURSIVE render_cells(_, _, _, _, _)
\* Game::render, the loop over wi from wi on, in the row hi of the shape
render_cells(res, s, lvl, hi, wi) ==
    IF wi >= width(s.shape) THEN res
    ELSE IF ~usize_lt(s.pos[2] + wi, lvl.columns) THEN res
    ELSE render_cells(IF get(s.shape, hi, wi)
                      THEN set(res, s.pos[1] + hi, s.pos[2] + wi, TRUE)
                      ELSE res,
                      s, lvl, hi, wi + 1)

RECURSIVE render_from(_, _, _, _)
\* Game::render, the loop over hi from hi on
render_from(res, s, lvl, hi) ==
    IF hi >= height(s.shape) THEN res
    ELSE IF ~usize_lt(s.pos[1] + hi, lvl.rows) THEN res
    ELSE render_from(render_cells(res, s, lvl, hi, 0), s, lvl, hi + 1)

\* a render that draws the shape into the level itself, not into a clone
render_in_place(g) ==
    IF g.shape = None THEN Result(g, None, TRUE, FALSE)
    ELSE Result([g EXCEPT !.level = render_from(g.level, unwrap(g.shape), g.level, 0)],
                Some(render_from(g.level, unwrap(g.shape), g.level, 0)), FALSE, FALSE)

\* Game::render: ret is <<m>> for the matrix m it returns; unwrap aborts the
\* program when there is no current shape
render(g) ==
    IF g.shape = None THEN Result(g, None, TRUE, FALSE)
    ELSE Result(g, Some(render_from(g.level, unwrap(g.shape), g.level, 0)), FALSE, FALSE)

----------------------------------------------------------------------------
(* The engine driven by any sequence of events and ticks *)

\* the engine as the variables hold it
G == Game(shape, state, level)

\* no rotation test is running
NoTrial == [orig |-> None, s |-> None, turns |-> 0]

\* ui::start has constructed the engine and has read no key
NoKey == [pc |-> "start", key |-> "none"]

\* the record of a call: op is the call, from the state it was made in,
\* ret its return value, moved whether its move, drop or rotation was
\* committed, oob whether it indexed a matrix outside its rows and columns
Last(op, r) ==
    [op |-> op, from |-> state, ret |-> r.ret, moved |-> r.did, oob |-> r.oob]

\* a call: its result becomes the engine, or the program aborts
Call(op, r) ==
    /\ ~panicked
    /\ last' = Last(op, r)
    /\ panicked' = r.panic
    /\ IF r.panic
       THEN UNCHANGED <<state, level, shape>>
       ELSE /\ state' = r.g.state
            /\ level' = r.g.level
            /\ shape' = r.g.shape
    /\ rendered' = None
    /\ UNCHANGED trial

Init ==
    /\ \E size \in LevelSizes :
          /\ state = Game_new(size).state
          /\ level = Game_new(size).level
          /\ shape = Game_new(size).shape
    /\ panicked = FALSE
    /\ last = [op |-> "new", from |-> "Init", ret |-> TRUE, moved |-> FALSE,
               oob |-> FALSE]
    /\ locks = 0
    /\ rendered = None
    /\ trial = NoTrial
    /\ ui = NoKey

\* the builds that differ on this level: with and without overflow checks
\* where rows - height can underflow, one build otherwise
Builds == IF \E sel \in 1..Len(shapes) : level.rows < height(shapes[sel])
          THEN BOOLEAN ELSE {TRUE}

\* a tick in this state locks the current shape
Locking == state = "Playing" /\ ~move_shape(G, <<-1, 0>>).ret

Start ==
    /\ \E sel \in 1..Len(shapes), wrapping \in Builds :
          Call("Start", handle_event(G, "Start", sel, wrapping))
    /\ UNCHANGED <<locks, ui>>

Left == Call("Left", handle_event(G, "Left", 1, FALSE)) /\ UNCHANGED <<locks, ui>>

Right == Call("Right", handle_event(G, "Right", 1, FALSE)) /\ UNCHANGED <<locks, ui>>

Rotate == Call("Rotate", handle_event(G, "Rotate", 1, FALSE)) /\ UNCHANGED <<locks, ui>>

Pause == Call("Pause", handle_event(G, "Pause", 1, FALSE)) /\ UNCHANGED <<locks, ui>>

Tick ==
    /\ IF Locking
       THEN /\ locks < MaxLocks
            /\ locks' = locks + 1
            /\ \E sel \in 1..Len(shapes), wrapping \in Builds :
                  Call("tick", tick(G, sel, wrapping))
       ELSE /\ UNCHANGED locks
            /\ Call("tick", tick(G, 1, FALSE))
    /\ UNCHANGED ui

\* a call of render: it takes &self and returns a matrix
Render ==
    /\ ~panicked
    /\ LET r == render(G)
       IN  /\ last' = Last("render", Result(G, TRUE, r.panic, r.oob))
           /\ panicked' = r.panic
           /\ rendered' = r.ret
           /\ state' = r.g.state
           /\ level' = r.g.level
           /\ shape' = r.g.shape
    /\ UNCHANGED <<locks, trial, ui>>

Next == Start \/ Left \/ Right \/ Rotate \/ Pause \/ Tick \/ Render

Spec == Init /\ [][Next]_vars

----------------------------------------------------------------------------
(* The engine with a random generator that always draws the square *)

\* the index of the square in the catalog, from 1
SQUARE == 1

StartSquare ==
    /\ \E wrapping \in Builds :
          Call("Start", handle_event(G, "Start", SQUARE, wrapping))
    /\ UNCHANGED <<locks, ui>>

TickSquare ==
    /\ IF Locking
       THEN /\ locks < MaxLocks
            /\ locks' = locks + 1
            /\ \E wrapping \in Builds : Call("tick", tick(G, SQUARE, wrapping))
       ELSE /\ UNCHANGED locks
            /\ Call("tick", tick(G, SQUARE, FALSE))
    /\ UNCHANGED ui

NextSquare == StartSquare \/ Left \/ Right \/ Rotate \/ Pause \/ TickSquare

SpecSquare == Init /\ [][NextSquare]_vars

----------------------------------------------------------------------------
(* The engine as ui.rs runs it when no key is pressed: one Start, then a
   tick on every timeout of the event poll, for ever *)

\* a level in which every shape of the catalog fits at the spawn position
InitTicks == Init /\ level.rows >= 4 /\ level.columns >= 5

StartOnce == state = "Init" /\ Start

TickAlone ==
    /\ state # "Init"
    /\ IF Locking
       THEN /\ locks' = locks + 1
            /\ \E sel \in 1..Len(shapes), wrapping \in Builds :
                  Call("tick", tick(G, sel, wrapping))
       ELSE /\ UNCHANGED locks
            /\ Call("tick", tick(G, 1, FALSE))
    /\ UNCHANGED ui

NextTicks == StartOnce \/ TickAlone

SpecTicks == InitTicks /\ [][NextTicks]_vars

----------------------------------------------------------------------------
(* The engine as ui::start drives it: one Start, then the loop that draws,
   polls the keyboard until the next tick is due, handles the key it has
   read, and ticks *)

\* the keys that ui::start translates into an event
EventKeys == {"Left", "Right", "Up", "p"}

\* the match on key.code with 'p' sending Start in every state but Playing
key_event_toggles(g, key) ==
    CASE key = "Left" -> "Left"
      [] key = "Right" -> "Right"
      [] key = "Up" -> "Rotate"
      [] key = "p" -> IF g.state # "Playing" THEN "Start" ELSE "Pause"

\* the match on key.code: the event that a key sends to the engine
key_event(g, key) ==
    CASE key = "Left" -> "Left"
      [] key = "Right" -> "Right"
      [] key = "Up" -> "Rotate"
      [] key = "p" -> IF g.state = "Paused" THEN "Start" ELSE "Pause"

\* a tick of the engine g locks its shape
locking(g) == g.state = "Playing" /\ ~move_shape(g, <<-1, 0>>).ret

RECURSIVE ticks(_, _, _)
\* the arm of KeyCode::Down, n calls of g.tick() from the outcome o on: the
\* set of the outcomes, one for each choice of the shapes that are spawned.
\* An outcome is what the last tick did (r) and the number of shapes locked
ticks(o, n, wrapping) ==
    IF n = 0 \/ o.r.panic THEN {o}
    ELSE IF o.r.g.state # "Playing" THEN {o}
    ELSE LET locks_it == locking(o.r.g)
         IN  UNION {ticks([r |-> [tick(o.r.g, sel, wrapping) EXCEPT !.oob = @ \/ o.r.oob],
                           locked |-> o.locked + (IF locks_it THEN 1 ELSE 0)],
                          n - 1, wrapping) :
                       sel \in IF locks_it THEN 1..Len(shapes) ELSE {1}}

\* the loop moves on without a call of the engine
Skip(pc, key) ==
    /\ ~panicked
    /\ ui' = [pc |-> pc, key |-> key]
    /\ UNCHANGED <<state, level, shape, panicked, last, locks, rendered, trial>>

\* g.handle_event(Start) before the loop
UiStart ==
    /\ ui.pc = "start"
    /\ \E sel \in 1..Len(shapes), wrapping \in Builds :
          Call("Start", handle_event(G, "Start", sel, wrapping))
    /\ ui' = [pc |-> "draw", key |-> "none"]
    /\ UNCHANGED locks

\* term.draw at the top of the loop, the first time or after the while loop
\* of the ticks has ended: LevelWidget calls g.render()
Draw ==
    /\ ui.pc \in {"draw", "ticks"}
    /\ ~panicked
    /\ LET r == render(G)
       IN  /\ last' = Last("render", Result(G, TRUE, r.panic, r.oob))
           /\ panicked' = r.panic
           /\ rendered' = r.ret
           /\ state' = r.g.state
           /\ level' = r.g.level
           /\ shape' = r.g.shape
    /\ ui' = [pc |-> "poll", key |-> "none"]
    /\ UNCHANGED <<locks, trial>>

\* event::poll returns false: no event before the next tick is due
Timeout == ui.pc = "poll" /\ Skip("ticks", "none")

\* a key that sends an event; only Start draws a shape
Press(key) ==
    /\ \E sel \in IF key_event(G, key) = "Start" THEN 1..Len(shapes) ELSE {1},
          wrapping \in Builds :
          Call(key_event(G, key), handle_event(G, key_event(G, key), sel, wrapping))
    /\ ui' = [pc |-> "ticks", key |-> key]
    /\ UNCHANGED locks

KeyLeft == ui.pc = "poll" /\ Press("Left")

KeyRight == ui.pc = "poll" /\ Press("Right")

KeyUp == ui.pc = "poll" /\ Press("Up")

KeyP == ui.pc = "poll" /\ Press("p")

\* KeyCode::Down: five ticks
KeyDown ==
    /\ ui.pc = "poll"
    /\ \E wrapping \in Builds :
          \E o \in ticks([r |-> Result(G, TRUE, FALSE, FALSE), locked |-> 0], 5, wrapping) :
              /\ locks + o.locked <= MaxLocks
              /\ locks' = locks + o.locked
              /\ Call("tick", o.r)
    /\ ui' = [pc |-> "ticks", key |-> "Down"]

\* 'q': break
KeyQ == ui.pc = "poll" /\ Skip("exit", "q")

\* any other key, or an event that is not a key
KeyOther == ui.pc = "poll" /\ Skip("ticks", "other")

\* one g.tick() of the while loop that catches up with the clock
TimerTick == ui.pc = "ticks" /\ Tick

NextUi ==
    \/ UiStart \/ Draw \/ Timeout
    \/ KeyLeft \/ KeyRight \/ KeyUp \/ KeyP \/ KeyDown \/ KeyQ \/ KeyOther
    \/ TimerTick

SpecUi == InitTicks /\ [][NextUi]_vars

----------------------------------------------------------------------------
(* eliminate_rows on its own, applied to any level grid *)

\* the engine inside a tick, between drop_shape and eliminate_rows: the
\* shape has been taken and locked into the level
InitEliminate ==
    /\ \E rows \in 1..MaxGridRows, columns \in 1..MaxGridColumns :
          \E values \in [1..(rows * columns) -> BOOLEAN] :
              level = [rows |-> rows, columns |-> columns, values |-> values]
    /\ state = "Playing"
    /\ shape = None
    /\ panicked = FALSE
    /\ last = [op |-> "new", from |-> "Playing", ret |-> TRUE, moved |-> FALSE,
               oob |-> FALSE]
    /\ locks = 0
    /\ rendered = None
    /\ trial = NoTrial
    /\ ui = NoKey

\* one call of eliminate_rows
EliminateRows ==
    /\ LET e == eliminate_rows(level)
       IN  Call("eliminate_rows", Result(Game(shape, state, e.g), e.ret, e.panic, e.oob))
    /\ UNCHANGED <<locks, ui>>

NextEliminate == EliminateRows

SpecEliminate == InitEliminate /\ [][NextEliminate]_vars

----------------------------------------------------------------------------
(* Shape::rotate on its own, applied again and again to a shape of the
   catalog, as tests::rotate_shape1 and tests::rotate_shape2 do *)

\* a shape from the factory and its clone, before any engine exists
InitRotate ==
    /\ \E sel \in 1..Len(shapes) :
          trial = [orig |-> Some(create_shape(sel)), s |-> Some(create_shape(sel)),
                   turns |-> 0]
    /\ state = "Init"
    /\ level = Conventional_new(0, 0)
    /\ shape = None
    /\ panicked = FALSE
    /\ last = [op |-> "new", from |-> "Init", ret |-> TRUE, moved |-> FALSE,
               oob |-> FALSE]
    /\ locks = 0
    /\ rendered = None
    /\ ui = NoKey

\* one call of s.rotate()
RotateShape ==
    /\ trial.turns < MaxTurns
    /\ trial' = [trial EXCEPT !.s = Some(rotate(unwrap(trial.s))),
                              !.turns = trial.turns + 1]
    /\ last' = [last EXCEPT !.op = "rotate"]
    /\ UNCHANGED <<state, level, shape, panicked, locks, rendered, ui>>

NextRotate == RotateShape

SpecRotate == InitRotate /\ [][NextRotate]_vars

----------------------------------------------------------------------------
(* The vocabulary of the properties *)

\* the positions in the level of the occupied cells of a shape in the level
Cells(s) ==
    {<<s.pos[1] + hw[1], s.pos[2] + hw[2]>> :
        hw \in {x \in (0..(height(s.shape) - 1)) \X (0..(width(s.shape) - 1)) :
                   get(s.shape, x[1], x[2])}}

\* position p is a cell of the level and that cell is true
LevelCell(lvl, p) == in_range(lvl, p[1], p[2]) /\ get(lvl, p[1], p[2])

\* an occupied cell of the shape coincides with a true cell of the level
Overlaps(lvl, s) == \E p \in Cells(s) : LevelCell(lvl, p)

\* the bounding box of the shape is not inside the level
OutOfBounds(lvl, s) ==
    \/ s.pos[1] < 0
    \/ s.pos[1] + height(s.shape) > lvl.rows
    \/ s.pos[2] < 0
    \/ s.pos[2] + width(s.shape) > lvl.columns

\* the shape in the level moved by dir
Moved(s, dir) == [s EXCEPT !.pos = <<s.pos[1] + dir[1], s.pos[2] + dir[2]>>]

\* every cell of the level is false
AllFalse(lvl) == \A i \in DOMAIN lvl.values : ~lvl.values[i]

\* the step is the call op
Calls(op) == last'.op = op /\ vars' # vars

----------------------------------------------------------------------------
(* C1 *)

C1_Step ==
    \/ state' = state
    \/ state = "Init" /\ state' = "Playing" /\ Calls("Start")
    \/ state = "End" /\ state' = "Playing" /\ Calls("Start")
    \/ state = "Playing" /\ state' = "Paused" /\ Calls("Pause")
    \/ state = "Paused" /\ state' = "Playing" /\ Calls("Start")
    \/ state = "Playing" /\ state' = "End" /\ Calls("tick")

\* C1: the state starts at Init and every call either leaves it or takes one
\* of the steps Init -> Playing (Start), End -> Playing (Start), Playing ->
\* Paused (Pause), Paused -> Playing (Start), Playing -> End (tick)
C1_StateMachine == (state = "Init") /\ [][C1_Step]_vars

\* a game that ended has been restarted by Start
C1_Witness == state = "Playing" /\ last.op = "Start" /\ last.from = "End"

----------------------------------------------------------------------------
(* C2 *)

C2_Ignored ==
    \/ Calls("tick") /\ state # "Playing"
    \/ /\ Calls("Left") \/ Calls("Right") \/ Calls("Rotate") \/ Calls("Pause")
       /\ state \in {"Init", "Paused", "End"}
    \/ Calls("Start") /\ state = "Playing"

\* C2: an input the transition table ignores returns and leaves the state,
\* the level and the current shape as they were
C2_IgnoredInputs ==
    [][C2_Ignored => ~panicked' /\ UNCHANGED <<state, level, shape>>]_vars

\* Rotate has been ignored in a paused game
C2_Witness == last.op = "Rotate" /\ last.from = "Paused" /\ state = "Paused"

----------------------------------------------------------------------------
(* C3 *)

----------------------------------------------------------------------------
(* C4 *)

\* C4: Pause while Playing gives Paused, Start while Paused gives Playing,
\* and a call made in state Playing that pauses, or any call made in state
\* Paused, leaves the level and the current shape as they were
C4_PauseResume ==
    [][/\ (Calls("Pause") /\ state = "Playing" =>
              state' = "Paused" /\ UNCHANGED <<level, shape>>)
       /\ (Calls("Start") /\ state = "Paused" => state' = "Playing")
       /\ (state = "Paused" =>
              /\ ~panicked'
              /\ UNCHANGED <<level, shape>>
              /\ state' = "Paused" \/ (state' = "Playing" /\ Calls("Start")))]_vars

\* a game with locked cells in its level has been resumed by Start
C4_Witness ==
    /\ last.op = "Start" /\ last.from = "Paused" /\ state = "Playing"
    /\ ~AllFalse(level) /\ shape # None

----------------------------------------------------------------------------
(* C5 *)

C5_Dir == IF last'.op = "Left" THEN <<0, -1>> ELSE <<0, 1>>

C5_Accepted ==
    /\ ~OutOfBounds(level, Moved(unwrap(shape), C5_Dir))
    /\ ~Overlaps(level, Moved(unwrap(shape), C5_Dir))

\* C5: Left and Right in state Playing move the shape by one column if the
\* moved shape is neither out of bounds nor overlapping a true cell of the
\* level, and leave its position otherwise; move_shape returns true exactly
\* when the shape was moved
C5_MoveIffFree ==
    [][(Calls("Left") \/ Calls("Right")) /\ state = "Playing" =>
        /\ ~panicked'
        /\ shape' = IF C5_Accepted THEN Some(Moved(unwrap(shape), C5_Dir)) ELSE shape
        /\ last'.moved = C5_Accepted
        /\ UNCHANGED <<state, level>>]_vars

\* Right has moved the shape so that its right edge is in the last column
C5_Witness ==
    /\ state = "Playing" /\ last.op = "Right" /\ last.moved
    /\ unwrap(shape).pos[2] + width(unwrap(shape).shape) = level.columns

----------------------------------------------------------------------------
(* C6 *)

C6_Rotated == [unwrap(shape) EXCEPT !.shape = rotate(unwrap(shape).shape)]

C6_Accepted == ~OutOfBounds(level, C6_Rotated) /\ ~Overlaps(level, C6_Rotated)

\* C6: Rotate in state Playing replaces the shape by its rotated copy at the
\* same position if that copy is neither out of bounds nor overlapping a true
\* cell of the level, and leaves the shape otherwise; the level and the state
\* are unchanged
C6_RotateIffFree ==
    [][Calls("Rotate") /\ state = "Playing" =>
        /\ ~panicked'
        /\ shape' = IF C6_Accepted THEN Some(C6_Rotated) ELSE shape
        /\ last'.moved = C6_Accepted
        /\ UNCHANGED <<state, level>>]_vars

\* Rotate has been refused for a shape at the right edge of the level whose
\* rotated copy sticks out
C6_Witness ==
    /\ state = "Playing" /\ last.op = "Rotate" /\ last.from = "Playing" /\ ~last.moved
    /\ unwrap(shape).pos[2] + width(unwrap(shape).shape) = level.columns
    /\ unwrap(shape).pos[2] + height(unwrap(shape).shape) > level.columns

----------------------------------------------------------------------------
(* C7 *)

C7_DropFails ==
    \/ OutOfBounds(level, Moved(unwrap(shape), <<-1, 0>>))
    \/ Overlaps(level, Moved(unwrap(shape), <<-1, 0>>))

\* C7: a tick in state Playing that returns sets the state to End if and only
\* if the downward move failed and the new shape is out of bounds or overlaps
\* the level; otherwise the state is still Playing
C7_EndIffSpawnBlocked ==
    [][Calls("tick") /\ state = "Playing" /\ ~panicked' =>
        /\ state' \in {"Playing", "End"}
        /\ state' = "End" <=>
              /\ C7_DropFails
              /\ \/ OutOfBounds(level', unwrap(shape'))
                 \/ Overlaps(level', unwrap(shape'))]_vars

\* a tick has ended the game
C7_Witness ==
    /\ state = "End" /\ last.op = "tick" /\ last.from = "Playing" /\ ~last.moved
    /\ OutOfBounds(level, unwrap(shape))

----------------------------------------------------------------------------
(* C8 *)

\* C8: no call reads or writes a cell of a matrix whose row or column index
\* is out of range
C8_NoOutOfRangeAccess == ~last.oob

----------------------------------------------------------------------------
(* C9 *)

\* row r of a matrix, as a function of the column
Row(m, r) == [c \in 0..(m.columns - 1) |-> get(m, r, c)]

\* every cell of row r is true
Full(m, r) == \A c \in 0..(m.columns - 1) : get(m, r, c)

\* the rows of the matrix that are not full, bottom first
Kept(m) == SelectSeq([i \in 1..m.rows |-> i - 1], LAMBDA r : ~Full(m, r))

\* new is old with its full rows removed, the rows above them moved down and
\* the vacated rows at the top false
Compacted(old, new) ==
    /\ new.rows = old.rows /\ new.columns = old.columns
    /\ Len(new.values) = Len(old.values)
    /\ \A i \in 1..Len(Kept(old)) : Row(new, i - 1) = Row(old, Kept(old)[i])
    /\ \A r \in Len(Kept(old))..(old.rows - 1) : \A c \in 0..(old.columns - 1) :
          ~get(new, r, c)

\* C9: for every level grid, eliminate_rows returns and leaves the grid with
\* its full rows removed, the other rows in their order at the bottom and
\* the top rows false, wherever the full rows are
C9_Compacts == [][Calls("eliminate_rows") => ~panicked' /\ Compacted(level, level')]_vars

----------------------------------------------------------------------------
(* C10 *)

C10_Spawns ==
    \/ Calls("Start") /\ state \in {"Init", "End"}
    \/ Calls("tick") /\ state = "Playing" /\ ~last'.moved

\* C10: after a call that spawned a shape and returned, the shape overlaps
\* no true cell of the level or the state is End
C10_SpawnFree ==
    [][C10_Spawns /\ ~panicked' =>
        /\ shape' # None
        /\ ~Overlaps(level', unwrap(shape')) \/ state' = "End"]_vars

\* a tick has spawned a shape where it collided, the search has moved it
\* above the top of the level, and the game has ended
C10_Witness ==
    /\ last.op = "tick" /\ last.from = "Playing" /\ ~last.moved /\ state = "End"
    /\ unwrap(shape).pos[1] > level.rows - height(unwrap(shape).shape)
    /\ ~Overlaps(level, unwrap(shape))

----------------------------------------------------------------------------
(* C11 *)

\* C11: on the level of 2 columns that matches the square, with squares
\* only, no call aborts the program, Start leaves the square as the current
\* shape of a game in state Playing, and a tick that locked the square
\* across the width of the level leaves no row of the level full
C11_SquareScenario ==
    level.columns = width(shapes[SQUARE]) =>
        /\ ~panicked
        /\ (last.op = "Start" /\ last.from = "Init" =>
               state = "Playing" /\ shape # None)
        /\ (last.op = "tick" /\ last.from = "Playing" /\ ~last.moved =>
               \A r \in 0..(level.rows - 1) : ~Full(level, r))

----------------------------------------------------------------------------
(* C12 *)

\* C12: on the level of 4 rows and 4 columns, Start in state Init returns
\* with state Playing and a current shape whichever shape is drawn, Left
\* leaves the column of the shape at 0 or more, and Left with the shape in
\* column 0 leaves the shape where it is
C12_FourByFour ==
    [][level.rows = 4 /\ level.columns = 4 =>
        /\ (Calls("Start") /\ state = "Init" =>
               ~panicked' /\ state' = "Playing" /\ shape' # None)
        /\ (Calls("Left") /\ state = "Playing" =>
               /\ ~panicked'
               /\ unwrap(shape').pos[2] >= 0
               /\ (unwrap(shape).pos[2] = 0 => shape' = shape))]_vars

----------------------------------------------------------------------------
(* C13 *)

\* the level with the occupied cells of the shape that lie inside it set
Overlay(lvl, s) ==
    [lvl EXCEPT !.values =
        [i \in 1..Len(lvl.values) |->
            \/ lvl.values[i]
            \/ <<(i - 1) % lvl.rows, (i - 1) \div lvl.rows>> \in Cells(s)]]

\* C13: render in a state with a current shape returns the level with
\* exactly the occupied cells of the shape that lie inside the level set in
\* addition, whatever part of the shape is outside, and changes neither the
\* level nor the shape nor the state
C13_RenderOverlays ==
    [][Calls("render") /\ shape # None =>
        /\ ~panicked'
        /\ rendered' = Some(Overlay(level, unwrap(shape)))
        /\ UNCHANGED <<state, level, shape>>]_vars

----------------------------------------------------------------------------
(* C14 *)

\* C14: after every call of handle_event or tick that returned, there is no
\* current shape if and only if the state is Init
C14_ShapeIffStarted == ~panicked => (shape = None <=> state = "Init")

\* a tick has locked a shape and ended the game, and the shape it spawned
\* is still the current shape
C14_Witness ==
    /\ ~panicked /\ last.op = "tick" /\ last.from = "Playing" /\ ~last.moved
    /\ state = "End" /\ shape # None /\ ~AllFalse(level)

----------------------------------------------------------------------------
(* C15 *)

\* the shape of the rotation test as it is, and as it was created
TrialShape == unwrap(trial.s)

TrialOrig == unwrap(trial.orig)

\* C15: a shape of the catalog rotated a multiple of four times is the shape
\* as created, and four more rotations of any shape reached by rotating
\* give that shape again
C15_FourRotations ==
    /\ (trial.turns % 4 = 0 => TrialShape = TrialOrig)
    /\ rotate(rotate(rotate(rotate(TrialShape)))) = TrialShape

\* J has been rotated four times, and it was another shape in between
C15_Witness ==
    /\ trial.turns = 4 /\ TrialOrig = shapes[3] /\ TrialShape = shapes[3]
    /\ rotate(TrialShape) # TrialShape

----------------------------------------------------------------------------
(* C16 *)

\* the cell (row, col) of a matrix; a position outside the matrix names no
\* cell and is not true
CellAt(m, row, col) == in_range(m, row, col) /\ get(m, row, col)

\* C16 as stated: rotate makes of a shape H high and W wide a shape W high
\* and H wide whose cell (r, c) is the cell (c, H - r - 1) of the shape
\* before
C16_RotateCellsByHeight ==
    [][Calls("rotate") =>
        LET old == unwrap(trial.s)
            new == unwrap(trial'.s)
        IN  /\ height(new) = width(old) /\ width(new) = height(old)
            /\ \A r \in 0..(width(old) - 1), c \in 0..(height(old) - 1) :
                  get(new, r, c) = CellAt(old, c, height(old) - r - 1)]_vars

\* C16: rotate makes of a shape H high and W wide a shape W high and H wide
\* whose cell (r, c) is the cell (c, W - r - 1) of the shape before
C16_RotateCellsByWidth ==
    [][Calls("rotate") =>
        LET old == unwrap(trial.s)
            new == unwrap(trial'.s)
        IN  /\ height(new) = width(old) /\ width(new) = height(old)
            /\ Len(new.values) = height(new) * width(new)
            /\ \A r \in 0..(width(old) - 1), c \in 0..(height(old) - 1) :
                  get(new, r, c) = CellAt(old, c, width(old) - r - 1)]_vars

\* the stick, 4 high and 1 wide, has been rotated to 1 high and 4 wide with
\* every cell true
C16_Witness ==
    /\ last.op = "rotate" /\ trial.turns = 1 /\ TrialOrig = shapes[2]
    /\ height(TrialShape) = 1 /\ width(TrialShape) = 4
    /\ \A c \in 0..3 : get(TrialShape, 0, c)

----------------------------------------------------------------------------
(* C17 *)

\* the shape turned by 180 degrees: cell (r, c) is cell (H - 1 - r, W - 1 - c)
Rot180(s) ==
    [rows |-> height(s), columns |-> width(s),
     values |-> [i \in 1..(height(s) * width(s)) |->
                    get(s, height(s) - 1 - ((i - 1) % height(s)),
                           width(s) - 1 - ((i - 1) \div height(s)))]]

\* C17: a shape of the catalog rotated twice is the shape turned by 180
\* degrees, with the height and width it had, and so is every shape reached
\* by rotating
C17_TwoRotations ==
    /\ (trial.turns % 4 = 2 => TrialShape = Rot180(TrialOrig))
    /\ rotate(rotate(TrialShape)) = Rot180(TrialShape)

\* L has been rotated twice and is not the shape it was
C17_Witness ==
    /\ trial.turns = 2 /\ TrialOrig = shapes[4]
    /\ TrialShape = Rot180(shapes[4]) /\ TrialShape # shapes[4]

----------------------------------------------------------------------------
(* C18 *)

\* C18: after an odd number of rotate calls the width of the shape is the
\* height it was created with and its height that width; after an even
\* number its width and height are those it was created with
C18_WidthHeight ==
    IF trial.turns % 2 = 1
    THEN width(TrialShape) = height(TrialOrig) /\ height(TrialShape) = width(TrialOrig)
    ELSE width(TrialShape) = width(TrialOrig) /\ height(TrialShape) = height(TrialOrig)

\* the stick has been rotated three times and is 4 wide and 1 high
C18_Witness ==
    /\ trial.turns = 3 /\ TrialOrig = shapes[2]
    /\ width(TrialShape) = 4 /\ height(TrialShape) = 1

----------------------------------------------------------------------------
(* C19 *)

\* the number of true cells of a matrix
Count(m) == Cardinality({i \in DOMAIN m.values : m.values[i]})

\* C19: a shape of the catalog has 4 true cells, as created and after any
\* number of rotations
C19_FourCells == Count(TrialOrig) = 4 /\ Count(TrialShape) = Count(TrialOrig)

\* T has been rotated three times, stands 3 high and 2 wide, and has 4 cells
C19_Witness ==
    /\ trial.turns = 3 /\ TrialOrig = shapes[7]
    /\ height(TrialShape) = 3 /\ width(TrialShape) = 2 /\ Count(TrialShape) = 4

----------------------------------------------------------------------------
(* C20 *)

\* C20: eliminate_rows on a level grid with no full row returns false and
\* leaves every cell of the grid as it was
C20_NoFullRowNoChange ==
    [][Calls("eliminate_rows") /\ (\A r \in 0..(level.rows - 1) : ~Full(level, r)) =>
        ~panicked' /\ ~last'.ret /\ level' = level]_vars

\* eliminate_rows has returned false on a grid of several rows, each with a
\* true cell and a false cell
C20_Witness ==
    /\ last.op = "eliminate_rows" /\ ~last.ret /\ ~panicked
    /\ level.rows > 1
    /\ \A r \in 0..(level.rows - 1) :
          ~Full(level, r) /\ \E c \in 0..(level.columns - 1) : get(level, r, c)

----------------------------------------------------------------------------
(* C21 *)

\* the events of handle_event
Events == {"Start", "Left", "Right", "Rotate", "Pause"}

\* C21: every call of handle_event that returns, whatever the event and the
\* state it is made in, returns true
C21_ReturnsTrue == last.op \in Events /\ ~panicked => last.ret

\* Left has returned true in state Playing although the move was refused
C21_Witness ==
    /\ last.op = "Left" /\ last.from = "Playing" /\ ~last.moved
    /\ last.ret /\ ~panicked

----------------------------------------------------------------------------
(* C22 *)

\* C22: when the downward move of a tick fails, drop_shape leaves the level
\* with exactly the cells under the occupied cells of the shape set to true
\* in addition and no current shape, and the level after a tick that
\* returned is that level with its full rows eliminated
C22_LockSetsShapeCells ==
    [][Calls("tick") /\ state = "Playing" /\ C7_DropFails =>
        /\ ~drop_shape(G).panic
        /\ drop_shape(G).g.shape = None
        /\ drop_shape(G).g.level = Overlay(level, unwrap(shape))
        /\ (~panicked' => Compacted(Overlay(level, unwrap(shape)), level'))]_vars

----------------------------------------------------------------------------
(* C23 *)

\* C23: a tick in state Playing whose candidate one row down is neither out
\* of bounds nor overlapping the level returns with the shape one row lower
\* and nothing else changed: the same column and cells of the shape, the
\* same level, the same state
C23_DropOnly ==
    [][Calls("tick") /\ state = "Playing" /\ ~C7_DropFails =>
        /\ ~panicked'
        /\ last'.moved
        /\ shape' = Some(Moved(unwrap(shape), <<-1, 0>>))
        /\ UNCHANGED <<state, level, locks>>]_vars

\* a tick has dropped a shape by one row above a level that holds locked
\* cells, and the shape can drop further
C23_Witness ==
    /\ last.op = "tick" /\ last.from = "Playing" /\ last.moved /\ ~panicked
    /\ state = "Playing" /\ ~AllFalse(level) /\ ~C7_DropFails

----------------------------------------------------------------------------
(* C24 *)

\* the last call spawned a shape: Start in state Init or End, or a tick
\* whose downward move failed
C24_Spawned ==
    \/ last.op = "Start" /\ last.from \in {"Init", "End"}
    \/ last.op = "tick" /\ last.from = "Playing" /\ ~last.moved

\* the current shape put where create_new_shape first puts a shape
C24_AtTop ==
    [unwrap(shape) EXCEPT !.pos = <<level.rows - height(unwrap(shape).shape),
                                    level.columns \div 2>>]

\* C24: after a call that spawned a shape and returned, the shape is a
\* template of the catalog in column columns div 2, and it is at row
\* rows - height if the cells there are free or the state is Playing
C24_SpawnPosition ==
    C24_Spawned /\ ~panicked =>
        /\ \E sel \in 1..Len(shapes) : unwrap(shape).shape = shapes[sel]
        /\ unwrap(shape).pos[2] = level.columns \div 2
        /\ (state = "Playing" \/ ~Overlaps(level, C24_AtTop) =>
               unwrap(shape) = C24_AtTop)

----------------------------------------------------------------------------
(* C25 *)

\* C25: on a level of at least 4 rows and 5 columns, whenever the state is
\* Playing or Paused the current shape is inside the level and none of its
\* occupied cells is on a true cell of the level
C25_InsideAndFree ==
    level.rows >= 4 /\ level.columns >= 5 /\ state \in {"Playing", "Paused"} =>
        /\ shape # None
        /\ ~OutOfBounds(level, unwrap(shape))
        /\ ~Overlaps(level, unwrap(shape))

\* a paused game whose shape lies in the bottom row next to locked cells,
\* its right edge in the last column
C25_Witness ==
    /\ level.rows >= 4 /\ level.columns >= 5 /\ state = "Paused" /\ ~panicked
    /\ ~AllFalse(level)
    /\ unwrap(shape).pos[1] = 0
    /\ unwrap(shape).pos[2] + width(unwrap(shape).shape) = level.columns

----------------------------------------------------------------------------
(* C26 *)

\* C26: after every call of handle_event or tick that returned, no row of
\* the level is full
C26_NoFullRow == ~panicked => \A r \in 0..(level.rows - 1) : ~Full(level, r)

\* a tick has locked a shape that filled a row, eliminated the row and
\* returned: the level is empty again
C26_Witness ==
    /\ last.op = "tick" /\ last.from = "Playing" /\ ~last.moved /\ ~panicked
    /\ locks > 0 /\ AllFalse(level)

----------------------------------------------------------------------------
(* C27 *)

\* the level as the lock of drop_shape leaves it, before eliminate_rows
C27_Locked == drop_shape(G).g.level

\* the number of full rows of a matrix
FullRows(m) == Cardinality({r \in 0..(m.rows - 1) : Full(m, r)})

----------------------------------------------------------------------------
(* C28 *)

\* the step is a call other than a tick whose downward move fails and other
\* than Start in state Init or End
C28_NotWriting ==
    \/ Calls("Left") \/ Calls("Right") \/ Calls("Rotate") \/ Calls("Pause")
    \/ Calls("render")
    \/ Calls("Start") /\ state \in {"Playing", "Paused"}
    \/ Calls("tick") /\ (state # "Playing" \/ ~C7_DropFails)

\* C28: Left, Right, Rotate, Pause, render, Start in state Playing or Paused
\* and a tick that does not lock the shape leave every cell of the level as
\* it was, whether the move or rotation is accepted or not
C28_LevelFrame == [][C28_NotWriting => level' = level]_vars

\* render has returned the level with the shape drawn over it, above locked
\* cells, and the level is still without the shape
C28_Witness ==
    /\ last.op = "render" /\ ~panicked /\ rendered # None
    /\ ~AllFalse(level) /\ unwrap(rendered) # level

----------------------------------------------------------------------------
(* C29 *)

\* C29: on a level of at least 4 rows and 5 columns, with ticks only, a
\* game in state Playing reaches state End, whatever shapes are spawned.
\* Every tick of such a game drops the shape by a row or locks it, and every
\* lock adds cells to the columns from columns div 2 on, so the game can
\* fail to reach End only by a tick that aborts the program: the ticking
\* never stops in a state other than End
C29_TicksEndGame == panicked => state = "End"

----------------------------------------------------------------------------
(* C30 *)

\* the number of rows by which the spawn search has raised the shape s above
\* the row where create_new_shape first puts it in the level m
C30_Raised(m, s) == s.pos[1] - (m.rows - height(s.shape))

\* C30: every call that spawns a shape returns, and the upward search of the
\* spawn has raised the shape by at most its height, for every level and
\* every shape of the catalog
C30_SearchTerminates ==
    [][C10_Spawns =>
        /\ ~panicked'
        /\ shape' # None
        /\ C30_Raised(level', unwrap(shape')) <= height(unwrap(shape').shape)]_vars

----------------------------------------------------------------------------
(* C31 *)

\* the step is a key press handled by the loop of ui::start
C31_Key(key) == ui.pc = "poll" /\ ui'.pc # "poll" /\ ui'.key = key

\* the step is the draw at the top of the loop
C31_Draws == ui.pc # "poll" /\ ui'.pc = "poll"

====
